---- MODULE Spec2Model ----
(***************************************************************************)
(* Deribit-client: the price store (currency_prices table and its          *)
(* repository), the three read endpoints of the query API and the periodic *)
(* ingestion cycle.                                                        *)
(*                                                                         *)
(* Time is scaled: one calendar day has TicksPerDay ticks instead of       *)
(* 86 400 000 000 microseconds, so that timestamps stay small.  A date     *)
(* string is a sequence of one-character strings.  An optional value is    *)
(* None or Some(v).                                                        *)
(*                                                                         *)
(* Three specifications: Spec runs the ingestion cycles one after another, *)
(* SpecOverlap lets a cycle start while another is running (the INSERT of  *)
(* a write, which takes the id, and its COMMIT are separate steps), and    *)
(* SpecApi serves requests to the routes on a table filled by add_price.   *)
(* An upstream price is an integer: float() of the service and the         *)
(* NUMERIC(20, 8) column are exact on the two-decimal index prices.        *)
(***************************************************************************)
EXTENDS Integers, Sequences, FiniteSets, TLC

\* ---------------------------------------------------------------- bounds
MaxRecords == 2      \* rows the table may hold
MaxTs == 2           \* largest timestamp (ticks) an observation may carry
MaxPrice == 1        \* largest index price
TicksPerDay == 2     \* ticks in one calendar day (stands for 86400 * 10^6 us)
MaxTzOffset == 1     \* largest distance (ticks) of the server's zone from UTC
MaxRuns == 2         \* ingestion cycles the scheduler triggers

Prices == 1..MaxPrice
Timestamps == 0..MaxTs
TzOffsets == (0 - MaxTzOffset)..MaxTzOffset

None == [none |-> TRUE]
Some(v) == [some |-> v]

\* ------------------------------------------------------------- the table
\* the tickers the ingestion cycle polls and the routes accept
WHITELIST == {"btc_usd", "eth_usd"}

\* a row of currency_prices
CurrencyPrice(id, ticker, price, timestamp) ==
    [id |-> id, ticker |-> ticker, price |-> price, timestamp |-> timestamp]

VARIABLES
    store,     \* committed rows of currency_prices, in commit order
    nextId,    \* next value of the id sequence
    resp,      \* the request last served by the query API and its response
    cyc,       \* the ingestion cycles: position, session and log of each
               \* (pending: objects added to the session and not flushed;
               \*  inserted: rows inserted by the flush, not yet committed;
               \*  fetched, got: the tickers get_index_data was called with
               \*  and what it answered;
               \*  deactive: a flush failed and the session was not rolled
               \*  back by the caller; db: what the database answered, or
               \*  would have answered, to each commit;
               \*  exc: an exception is passing through the finally block;
               \*  dbfail: a call into DatabaseHelper or the session raised;
               \*  base: the table when the cycle started)
    runs       \* ingestion cycles started so far

vars == <<store, nextId, resp, cyc, runs>>

RowsIn(tbl, T) == SelectSeq(tbl, LAMBDA r : r.ticker = T)

RowsOf(T) == RowsIn(store, T)

Range(s) == {s[i] : i \in 1..Len(s)}

\* all orders in which a result set may come back
PermsOf(s) ==
    { [i \in 1..Len(s) |-> s[p[i]]] : p \in Permutations(1..Len(s)) }

IsAscending(s) ==
    \A i \in 1..Len(s) : \A j \in 1..Len(s) :
        i < j => s[i].timestamp <= s[j].timestamp

IsDescending(s) ==
    \A i \in 1..Len(s) : \A j \in 1..Len(s) :
        i < j => s[i].timestamp >= s[j].timestamp

\* get_all_by_ticker as it would be without the WHERE clause
get_all_by_ticker_NoWhere(T) == PermsOf(store)

\* SELECT ... WHERE ticker = T, no ORDER BY: the rows in any order
get_all_by_ticker(T) == PermsOf(RowsOf(T))

\* get_latest as it would be with ORDER BY timestamp ASC
get_latest_Ascending(T) ==
    IF RowsOf(T) = <<>> THEN {None}
    ELSE { s[1] : s \in { q \in PermsOf(RowsOf(T)) : IsAscending(q) } }

\* SELECT ... WHERE ticker = T ORDER BY timestamp DESC LIMIT 1,
\* scalar_one_or_none(): None, or a first row of some descending order
get_latest(T) ==
    IF RowsOf(T) = <<>> THEN {None}
    ELSE { s[1] : s \in { q \in PermsOf(RowsOf(T)) : IsDescending(q) } }

\* get_by_range as it would be with an exclusive upper bound
get_by_range_ExclusiveEnd(T, start_ts, end_ts) ==
    LET hit(r) == /\ r.ticker = T
                  /\ (start_ts # None => r.timestamp >= start_ts.some)
                  /\ (end_ts # None => r.timestamp < end_ts.some)
    IN { q \in PermsOf(SelectSeq(store, hit)) : IsAscending(q) }

\* SELECT ... WHERE ticker = T [AND timestamp >= start_ts]
\* [AND timestamp <= end_ts] ORDER BY timestamp ASC
get_by_range(T, start_ts, end_ts) ==
    LET hit(r) == /\ r.ticker = T
                  /\ (start_ts # None => r.timestamp >= start_ts.some)
                  /\ (end_ts # None => r.timestamp <= end_ts.some)
    IN { q \in PermsOf(SelectSeq(store, hit)) : IsAscending(q) }

\* INSERT of the session's pending objects and COMMIT: each row takes the next
\* value of the id sequence
Flush(st, nid, pend) ==
    st \o [i \in 1..Len(pend) |->
             CurrencyPrice(nid + i - 1, pend[i].ticker, pend[i].price,
                           pend[i].timestamp)]

\* ------------------------------------------------- the dates of the routes
Digits == {"0", "1", "2", "3", "4", "5", "6", "7", "8", "9"}

DigitVal(c) ==
    CASE c = "1" -> 1 [] c = "2" -> 2 [] c = "3" -> 3 [] c = "4" -> 4
      [] c = "5" -> 5 [] c = "6" -> 6 [] c = "7" -> 7 [] c = "8" -> 8
      [] c = "9" -> 9 [] OTHER -> 0

RECURSIVE NumVal(_)
NumVal(t) ==
    IF t = <<>> THEN 0
    ELSE 10 * NumVal(SubSeq(t, 1, Len(t) - 1)) + DigitVal(t[Len(t)])

\* %m of strptime: 1[0-2] | 0[1-9] | [1-9]
IsMonthToken(t) ==
    \/ Len(t) = 2 /\ t[1] = "1" /\ t[2] \in {"0", "1", "2"}
    \/ Len(t) = 2 /\ t[1] = "0" /\ t[2] \in Digits \ {"0"}
    \/ Len(t) = 1 /\ t[1] \in Digits \ {"0"}

\* %d of strptime: 3[0-1] | [1-2]\d | 0[1-9] | [1-9] | " "[1-9]
IsDayToken(t) ==
    \/ Len(t) = 2 /\ t[1] = "3" /\ t[2] \in {"0", "1"}
    \/ Len(t) = 2 /\ t[1] \in {"1", "2"} /\ t[2] \in Digits
    \/ Len(t) = 2 /\ t[1] \in {"0", " "} /\ t[2] \in Digits \ {"0"}
    \/ Len(t) = 1 /\ t[1] \in Digits \ {"0"}

IsLeap(y) == (y % 4 = 0 /\ y % 100 # 0) \/ y % 400 = 0

DaysInMonth(y, m) ==
    IF m = 2 THEN (IF IsLeap(y) THEN 29 ELSE 28)
    ELSE IF m \in {4, 6, 9, 11} THEN 30 ELSE 31

\* datetime.strptime(s, "%Y-%m-%d"): None for ValueError, else the date
strptime(s) ==
    LET n == Len(s)
        dash == IF n >= 7 /\ s[7] = "-" THEN 7 ELSE 8
        yearOk == n >= 5 /\ (\A i \in 1..4 : s[i] \in Digits) /\ s[5] = "-"
        shaped == yearOk /\ n > dash /\ s[dash] = "-"
        mTok == SubSeq(s, 6, dash - 1)
        dTok == SubSeq(s, dash + 1, n)
        y == NumVal(SubSeq(s, 1, 4))
        m == NumVal(mTok)
        d == NumVal(dTok)
    IN IF /\ shaped
          /\ IsMonthToken(mTok)
          /\ IsDayToken(dTok)
          /\ y >= 1
          /\ d <= DaysInMonth(y, m)
       THEN Some([year |-> y, month |-> m, day |-> d])
       ELSE None

\* days from 1970-01-01 to the date (proleptic Gregorian calendar)
DaysFromCivil(date) ==
    LET y == IF date.month <= 2 THEN date.year - 1 ELSE date.year
        era == y \div 400
        yoe == y - era * 400
        mp == IF date.month > 2 THEN date.month - 3 ELSE date.month + 9
        doy == (153 * mp + 2) \div 5 + date.day - 1
        doe == yoe * 365 + yoe \div 4 - yoe \div 100 + doy
    IN era * 146097 + doe - 719468

\* int(dt.timestamp() * 1_000_000) of the naive datetime at 00:00:00 of the
\* date: timestamp() reads a naive datetime in the local zone of the server,
\* which is tz ticks ahead of UTC
start_of_day_ts(date, tz) == DaysFromCivil(date) * TicksPerDay - tz

\* the same after dt.replace(hour=23, minute=59, second=59, microsecond=999999)
end_of_day_ts(date, tz) == DaysFromCivil(date) * TicksPerDay - tz + (TicksPerDay - 1)

\* ---------------------------------------------------- the query API routes
\* a request and its response; start_ts and end_ts are the bounds handed to
\* the repository, delegated tells whether the repository was called
Response(op, ticker, start_date, end_date, status, detail, items, start_ts, end_ts, delegated) ==
    [op |-> op, ticker |-> ticker, start_date |-> start_date,
     end_date |-> end_date, status |-> status, detail |-> detail,
     items |-> items, start_ts |-> start_ts, end_ts |-> end_ts,
     delegated |-> delegated]

InvalidTicker(op, ticker, start_date, end_date) ==
    Response(op, ticker, start_date, end_date, 400, "Invalid ticker",
             <<>>, None, None, FALSE)

\* truth value of an optional query string: None and "" are false
Truthy(str) == str # None /\ str.some # <<>>

\* get_all_prices as it would be with a ticker check that ignores case
get_all_prices_IgnoreCase(ticker) ==
    IF ticker \notin WHITELIST \cup {"BTC_USD", "ETH_USD"}
    THEN {InvalidTicker("all", ticker, None, None)}
    ELSE { Response("all", ticker, None, None, 200, "", items, None, None,
                    TRUE) : items \in get_all_by_ticker(ticker) }

\* GET /?ticker=
get_all_prices(ticker) ==
    IF ticker \notin WHITELIST
    THEN {InvalidTicker("all", ticker, None, None)}
    ELSE { Response("all", ticker, None, None, 200, "", items, None, None,
                    TRUE) : items \in get_all_by_ticker(ticker) }

\* get_latest_price as it would be without the check of the result
get_latest_price_No404(ticker) ==
    IF ticker \notin WHITELIST
    THEN {InvalidTicker("latest", ticker, None, None)}
    ELSE { Response("latest", ticker, None, None, 200, "",
                    IF latest_price = None THEN <<>> ELSE <<latest_price>>,
                    None, None, TRUE)
           : latest_price \in get_latest(ticker) }

\* GET /latest?ticker=
get_latest_price(ticker) ==
    IF ticker \notin WHITELIST
    THEN {InvalidTicker("latest", ticker, None, None)}
    ELSE { IF latest_price = None
           THEN Response("latest", ticker, None, None, 404, "No prices found",
                         <<>>, None, None, TRUE)
           ELSE Response("latest", ticker, None, None, 200, "",
                         <<latest_price>>, None, None, TRUE)
           : latest_price \in get_latest(ticker) }

\* GET /filter?ticker=&start_date=&end_date= on a server whose local zone is
\* tz ticks ahead of UTC
get_prices_by_date(ticker, start_date, end_date, tz) ==
    LET sd == IF Truthy(start_date) THEN strptime(start_date.some) ELSE None
        ed == IF Truthy(end_date) THEN strptime(end_date.some) ELSE None
        start_ts == IF Truthy(start_date)
                    THEN Some(start_of_day_ts(sd.some, tz)) ELSE None
        end_ts == IF Truthy(end_date)
                  THEN Some(end_of_day_ts(ed.some, tz)) ELSE None
    IN IF ticker \notin WHITELIST
       THEN {InvalidTicker("filter", ticker, start_date, end_date)}
       ELSE IF Truthy(start_date) /\ sd = None
       THEN {Response("filter", ticker, start_date, end_date, 400,
                      "Invalid start_date format", <<>>, None, None, FALSE)}
       ELSE IF Truthy(end_date) /\ ed = None
       THEN {Response("filter", ticker, start_date, end_date, 400,
                      "Invalid end_date format", <<>>, None, None, FALSE)}
       ELSE { Response("filter", ticker, start_date, end_date, 200, "",
                       items, start_ts, end_ts, TRUE)
              : items \in get_by_range(ticker, start_ts, end_ts) }

\* ------------------------------------------------------- request inputs
TickerInputs == WHITELIST \cup {"BTC_USD", "xrp_usd"}

D_1970_01_01 == <<"1", "9", "7", "0", "-", "0", "1", "-", "0", "1">>
D_1970_01_02 == <<"1", "9", "7", "0", "-", "0", "1", "-", "0", "2">>
D_1970_1_2 == <<"1", "9", "7", "0", "-", "1", "-", "2">>
D_1970_02_30 == <<"1", "9", "7", "0", "-", "0", "2", "-", "3", "0">>
D_slashes == <<"1", "9", "7", "0", "/", "0", "1", "/", "0", "1">>
D_empty == <<>>

DateInputs ==
    {D_1970_01_01, D_1970_01_02, D_1970_1_2, D_1970_02_30, D_slashes, D_empty}

\* bounds handed to get_by_range directly: below, inside and above the
\* timestamps of the table
OptTsInputs == {None} \cup {Some(t) : t \in (0 - 1)..(MaxTs + 1)}

OptDateInputs == {None} \cup {Some(d) : d \in DateInputs}

\* ------------------------------------------------------ the ingestion cycle
\* for ticker in ["btc_usd", "eth_usd"]
TICKERS == <<"btc_usd", "eth_usd">>

\* the worker processes that may each run one cycle at a time
Cycles == {1, 2}

IdleCycle ==
    [pc |-> "idle", i |-> 1, pending |-> <<>>, inserted |-> <<>>,
     deactive |-> FALSE,
     exc |-> FALSE, log |-> <<>>, fetched |-> <<>>, got |-> <<>>,
     db |-> <<>>,
     disposed |-> 0, dbfail |-> FALSE, base |-> <<>>]

\* the usIn values of the upstream responses: an early and a late one
UsInValues == {0, MaxTs}

\* what the upstream endpoint may answer to one request
FetchOutcomes ==
    {[kind |-> "network_error", price |-> 0, usIn |-> 0],
     [kind |-> "malformed", price |-> 0, usIn |-> 0]}
    \cup [kind : {"ok"}, price : Prices, usIn : UsInValues]

\* DatabaseHelper(...), session_factory(), closing the session and dispose()
\* return or raise
DbHelperOutcomes == {"ok", "raise"}

\* what the database answers to the INSERT and COMMIT of session.commit():
\* it accepts them, or the flush raises
CommitOutcomes == {"ok", "raise"}

NoResponse == Response("none", "", None, None, 0, "", <<>>, None, None, FALSE)

Init ==
    /\ store = <<>>
    /\ nextId = 1
    /\ resp = NoResponse
    /\ cyc = [c \in Cycles |-> IdleCycle]
    /\ runs = 0

\* the loop moves to the next ticker, or leaves the session block
Advance(st) ==
    IF st.i < Len(TICKERS)
    THEN [st EXCEPT !.pc = "fetch", !.i = st.i + 1]
    ELSE [st EXCEPT !.pc = "close"]

\* fetch_prices_task starts fetch_prices_internal: local_db = DatabaseHelper(...)
\* is outside the try block
StartCycle(c) ==
    /\ cyc[c].pc = "idle"
    /\ runs < MaxRuns
    /\ \A d \in Cycles \ {c} : cyc[d].pc = "idle"
    /\ runs' = runs + 1
    /\ \E r \in DbHelperOutcomes :
          cyc' = [cyc EXCEPT ![c] =
                    [IdleCycle EXCEPT !.pc = IF r = "ok" THEN "enter" ELSE "raised",
                                      !.dbfail = (r = "raise"),
                                      !.base = store]]
    /\ UNCHANGED <<store, nextId, resp>>

\* the same when the beat schedule fires while a cycle is still running on
\* another worker process; each worker process is followed through one cycle,
\* or one through two in a row
StartOverlapping(c) ==
    /\ cyc[c].pc = "idle"
    /\ runs < Cardinality(Cycles)
    /\ runs' = runs + 1
    /\ \E r \in DbHelperOutcomes :
          cyc' = [cyc EXCEPT ![c] =
                    [IdleCycle EXCEPT !.pc = IF r = "ok" THEN "enter" ELSE "raised",
                                      !.dbfail = (r = "raise")]]
    /\ UNCHANGED <<store, nextId, resp>>

\* async with local_db.session_factory() as session: inside try/finally
EnterSession(c) ==
    /\ cyc[c].pc = "enter"
    /\ \E r \in DbHelperOutcomes :
          cyc' = [cyc EXCEPT ![c] =
                    IF r = "ok" THEN [@ EXCEPT !.pc = "fetch", !.i = 1]
                    ELSE [@ EXCEPT !.pc = "dispose", !.exc = TRUE,
                                   !.dbfail = TRUE]]
    /\ UNCHANGED <<store, nextId, resp, runs>>

\* collect_and_save_prices as it would be if a failed request escaped the
\* try block of the loop
collect_and_save_prices_Unhandled(c, data) ==
    LET st == cyc[c]
        ticker == TICKERS[st.i]
        called == [st EXCEPT !.fetched = Append(@, ticker),
                             !.got = Append(@, data)]
    IN IF data.kind = "network_error"
       THEN [called EXCEPT !.log = Append(@, "fetch_error"),
                           !.pc = "dispose", !.exc = TRUE]
       ELSE IF data.kind = "malformed"
       THEN Advance([called EXCEPT !.log = Append(@, "parse_error")])
       ELSE [called EXCEPT
               !.pc = "commit",
               !.pending = Append(@, [ticker |-> ticker, price |-> data.price,
                                      timestamp |-> data.usIn])]

\* collect_and_save_prices as it would be if a failed request were tried again
collect_and_save_prices_Retry(c, data) ==
    LET st == cyc[c]
        ticker == TICKERS[st.i]
        called == [st EXCEPT !.fetched = Append(@, ticker),
                             !.got = Append(@, data)]
    IN IF data.kind = "network_error"
       THEN [called EXCEPT !.pc = "fetch"]
       ELSE IF data.kind = "malformed"
       THEN Advance([called EXCEPT !.log = Append(@, "parse_error")])
       ELSE [called EXCEPT
               !.pc = "commit",
               !.pending = Append(@, [ticker |-> ticker, price |-> data.price,
                                      timestamp |-> data.usIn])]

\* collect_and_save_prices as it would be if the loop started the request for
\* the next ticker before the write of this one
collect_and_save_prices_Pipelined(c, data) ==
    LET st == cyc[c]
        ticker == TICKERS[st.i]
        called == [st EXCEPT !.fetched = Append(@, ticker),
                             !.got = Append(@, data)]
    IN IF data.kind = "network_error"
       THEN Advance([called EXCEPT !.log = Append(@, "fetch_error")])
       ELSE IF data.kind = "malformed"
       THEN Advance([called EXCEPT !.log = Append(@, "parse_error")])
       ELSE [called EXCEPT
               !.pc = IF st.i < Len(TICKERS) THEN "fetch" ELSE "commit",
               !.i = IF st.i < Len(TICKERS) THEN st.i + 1 ELSE st.i,
               !.pending = Append(@, [ticker |-> ticker, price |-> data.price,
                                      timestamp |-> data.usIn])]

\* collect_and_save_prices up to the commit: get_index_data, the conversions of
\* index_price and usIn, session.add(new_entry); an exception is caught and
\* logged by the loop
collect_and_save_prices(c, data) ==
    LET st == cyc[c]
        ticker == TICKERS[st.i]
        called == [st EXCEPT !.fetched = Append(@, ticker),
                             !.got = Append(@, data)]
    IN IF data.kind = "network_error"
       THEN Advance([called EXCEPT !.log = Append(@, "fetch_error")])
       ELSE IF data.kind = "malformed"
       THEN Advance([called EXCEPT !.log = Append(@, "parse_error")])
       ELSE [called EXCEPT
               !.pc = "commit",
               !.pending = Append(@, [ticker |-> ticker, price |-> data.price,
                                      timestamp |-> data.usIn])]

Fetch(c) ==
    /\ cyc[c].pc = "fetch"
    /\ \E data \in FetchOutcomes :
          cyc' = [cyc EXCEPT ![c] = collect_and_save_prices(c, data)]
    /\ UNCHANGED <<store, nextId, resp, runs>>

\* Commit as it would be if the id were computed from the rows of the table
\* (max(id) + 1) instead of taken from the sequence
Commit_IdFromTable(c) ==
    /\ cyc[c].pc = "commit"
    /\ \E r \in CommitOutcomes :
          IF r = "ok" /\ ~cyc[c].deactive
          THEN /\ nextId' = nextId + Len(cyc[c].pending)
               /\ cyc' = [cyc EXCEPT ![c] =
                            [@ EXCEPT !.pc = "committing",
                                      !.inserted = Flush(<<>>, Len(store) + 1,
                                                         cyc[c].pending),
                                      !.pending = <<>>,
                                      !.db = Append(@, r)]]
          ELSE /\ UNCHANGED nextId
               /\ cyc' = [cyc EXCEPT ![c] =
                            Advance([@ EXCEPT
                               !.pending = IF cyc[c].deactive THEN @ ELSE <<>>,
                               !.deactive = TRUE,
                               !.db = Append(@, r),
                               !.log = Append(@, "write_error")])]
    /\ UNCHANGED <<store, resp, runs>>

\* Commit as it would be if the whole cycle were one transaction that a
\* failed write rolls back
Commit_RollbackCycle(c) ==
    /\ cyc[c].pc = "commit"
    /\ \E r \in CommitOutcomes :
          IF r = "ok" /\ ~cyc[c].deactive
          THEN /\ nextId' = nextId + Len(cyc[c].pending)
               /\ store' = store
               /\ cyc' = [cyc EXCEPT ![c] =
                            [@ EXCEPT !.pc = "committing",
                                      !.inserted = Flush(<<>>, nextId, cyc[c].pending),
                                      !.pending = <<>>,
                                      !.db = Append(@, r)]]
          ELSE /\ UNCHANGED nextId
               /\ store' = cyc[c].base
               /\ cyc' = [cyc EXCEPT ![c] =
                            Advance([@ EXCEPT
                               !.pending = IF cyc[c].deactive THEN @ ELSE <<>>,
                               !.deactive = TRUE,
                               !.db = Append(@, r),
                               !.log = Append(@, "write_error")])]
    /\ UNCHANGED <<resp, runs>>

\* Commit as it would be if the cycles used one session in common (that of
\* the query API's DatabaseHelper) instead of one each
Commit_SharedSession(c) ==
    /\ cyc[c].pc = "commit"
    /\ \E r \in CommitOutcomes :
          IF r = "ok" /\ ~(\E d \in Cycles : cyc[d].deactive)
          THEN /\ nextId' = nextId + Len(cyc[c].pending)
               /\ cyc' = [cyc EXCEPT ![c] =
                            [@ EXCEPT !.pc = "committing",
                                      !.inserted = Flush(<<>>, nextId, cyc[c].pending),
                                      !.pending = <<>>,
                                      !.db = Append(@, r)]]
          ELSE /\ UNCHANGED nextId
               /\ cyc' = [cyc EXCEPT ![c] =
                            Advance([@ EXCEPT
                               !.pending = IF cyc[c].deactive THEN @ ELSE <<>>,
                               !.deactive = TRUE,
                               !.db = Append(@, r),
                               !.log = Append(@, "write_error")])]
    /\ UNCHANGED <<store, resp, runs>>

\* await self.session.commit() of add_price, first half: the flush.  The
\* pending rows are inserted, each taking the next value of the id sequence,
\* and are not yet visible to others; or the flush fails, which rolls the
\* transaction back, expunges the pending objects and leaves the session
\* waiting for session.rollback(), which neither add_price nor the loop calls:
\* every later commit on this session raises PendingRollbackError.  The
\* exception is caught and logged by the loop.
Commit(c) ==
    /\ cyc[c].pc = "commit"
    /\ \E r \in CommitOutcomes :
          IF r = "ok" /\ ~cyc[c].deactive
          THEN /\ nextId' = nextId + Len(cyc[c].pending)
               /\ cyc' = [cyc EXCEPT ![c] =
                            [@ EXCEPT !.pc = "committing",
                                      !.inserted = Flush(<<>>, nextId, cyc[c].pending),
                                      !.pending = <<>>,
                                      !.db = Append(@, r)]]
          ELSE /\ UNCHANGED nextId
               /\ cyc' = [cyc EXCEPT ![c] =
                            Advance([@ EXCEPT
                               !.pending = IF cyc[c].deactive THEN @ ELSE <<>>,
                               !.deactive = TRUE,
                               !.db = Append(@, r),
                               !.log = Append(@, "write_error")])]
    /\ UNCHANGED <<store, resp, runs>>

\* CommitTx as it would be if add_price kept one row per ticker, replacing
\* the row the ticker already has
CommitTx_Upsert(c) ==
    /\ cyc[c].pc = "committing"
    /\ store' = SelectSeq(store, LAMBDA r :
                    \A k \in 1..Len(cyc[c].inserted) :
                       cyc[c].inserted[k].ticker # r.ticker)
                 \o cyc[c].inserted
    /\ cyc' = [cyc EXCEPT ![c] =
                 Advance([@ EXCEPT !.inserted = <<>>,
                                   !.log = Append(@, "saved")])]
    /\ UNCHANGED <<nextId, resp, runs>>

\* CommitTx as it would be if the table had a unique key on (ticker,
\* timestamp) and the INSERT skipped a row that is already there
CommitTx_SkipDuplicate(c) ==
    /\ cyc[c].pc = "committing"
    /\ store' = store \o SelectSeq(cyc[c].inserted, LAMBDA n :
                    \A k \in 1..Len(store) :
                       ~(store[k].ticker = n.ticker
                         /\ store[k].timestamp = n.timestamp))
    /\ cyc' = [cyc EXCEPT ![c] =
                 Advance([@ EXCEPT !.inserted = <<>>,
                                   !.log = Append(@, "saved")])]
    /\ UNCHANGED <<nextId, resp, runs>>

\* second half: COMMIT makes the inserted rows part of the table; add_price
\* returns and the loop logs the ticker as saved
CommitTx(c) ==
    /\ cyc[c].pc = "committing"
    /\ store' = store \o cyc[c].inserted
    /\ cyc' = [cyc EXCEPT ![c] =
                 Advance([@ EXCEPT !.inserted = <<>>,
                                   !.log = Append(@, "saved")])]
    /\ UNCHANGED <<nextId, resp, runs>>

\* leaving the async with block closes the session
CloseSession(c) ==
    /\ cyc[c].pc = "close"
    /\ \E r \in DbHelperOutcomes :
          cyc' = [cyc EXCEPT ![c] =
                    [@ EXCEPT !.pc = "dispose", !.exc = (r = "raise"),
                              !.dbfail = (r = "raise")]]
    /\ UNCHANGED <<store, nextId, resp, runs>>

\* Dispose as it would be if dispose() stood at the end of the try block
\* instead of in a finally block
Dispose_NotFinally(c) ==
    /\ cyc[c].pc = "dispose"
    /\ \E r \in DbHelperOutcomes :
          cyc' = [cyc EXCEPT ![c] =
                    IF cyc[c].exc THEN [@ EXCEPT !.pc = "raised"]
                    ELSE [@ EXCEPT !.disposed = @ + 1,
                                   !.dbfail = @ \/ r = "raise",
                                   !.pc = IF r = "ok" THEN "returned"
                                          ELSE "raised"]]
    /\ UNCHANGED <<store, nextId, resp, runs>>

\* finally: await local_db.dispose()
Dispose(c) ==
    /\ cyc[c].pc = "dispose"
    /\ \E r \in DbHelperOutcomes :
          cyc' = [cyc EXCEPT ![c] =
                    [@ EXCEPT !.disposed = @ + 1,
                              !.dbfail = @ \/ r = "raise",
                              !.pc = IF r = "ok" /\ ~cyc[c].exc
                                     THEN "returned" ELSE "raised"]]
    /\ UNCHANGED <<store, nextId, resp, runs>>

\* fetch_prices_task ends (normally or with the exception of the cycle)
EndTask(c) ==
    /\ cyc[c].pc \in {"returned", "raised"}
    /\ cyc' = [cyc EXCEPT ![c] = IdleCycle]
    /\ UNCHANGED <<store, nextId, resp, runs>>

\* ----------------------------------------------- direct use of the store
\* repo.add_price(ticker, price, timestamp) on a fresh session (seed code),
\* between two requests
AddPrice ==
    /\ resp = NoResponse
    /\ Len(store) < MaxRecords
    /\ \E ticker \in WHITELIST, price \in Prices, timestamp \in Timestamps :
          /\ store' = Flush(store, nextId,
                            <<[ticker |-> ticker, price |-> price,
                               timestamp |-> timestamp]>>)
          /\ nextId' = nextId + 1
    /\ UNCHANGED <<resp, cyc, runs>>

\* repo.get_by_range(ticker, start_ts, end_ts) called directly
GetByRange ==
    /\ resp = NoResponse
    /\ \E ticker \in WHITELIST, start_ts \in OptTsInputs, end_ts \in OptTsInputs :
          \E items \in get_by_range(ticker, start_ts, end_ts) :
             resp' = Response("get_by_range", ticker, None, None, 0, "", items,
                              start_ts, end_ts, TRUE)
    /\ UNCHANGED <<store, nextId, cyc, runs>>

GetAllPrices ==
    /\ resp = NoResponse
    /\ \E ticker \in TickerInputs : resp' \in get_all_prices(ticker)
    /\ UNCHANGED <<store, nextId, cyc, runs>>

\* GetLatestPrice as it would be if the route fetched and stored a price for
\* a ticker it has no row of
GetLatestPrice_StoreOnMiss ==
    /\ resp = NoResponse
    /\ \E ticker \in TickerInputs : resp' \in get_latest_price(ticker)
    /\ IF resp'.status = 404
       THEN /\ store' = Flush(store, nextId,
                              <<[ticker |-> resp'.ticker, price |-> 1,
                                 timestamp |-> 0]>>)
            /\ nextId' = nextId + 1
       ELSE UNCHANGED <<store, nextId>>
    /\ UNCHANGED <<cyc, runs>>

GetLatestPrice ==
    /\ resp = NoResponse
    /\ \E ticker \in TickerInputs : resp' \in get_latest_price(ticker)
    /\ UNCHANGED <<store, nextId, cyc, runs>>

GetPricesByDate ==
    /\ resp = NoResponse
    /\ \E ticker \in TickerInputs, start_date \in OptDateInputs,
          end_date \in OptDateInputs, tz \in TzOffsets :
          resp' \in get_prices_by_date(ticker, start_date, end_date, tz)
    /\ UNCHANGED <<store, nextId, cyc, runs>>

\* the response is sent and the session of the request is released
Reply ==
    /\ resp # NoResponse
    /\ resp' = NoResponse
    /\ UNCHANGED <<store, nextId, cyc, runs>>

\* ------------------------------------------------------- specifications
\* the ingestion side: the scheduler runs the cycles one after another
Next ==
    \/ \E c \in Cycles : StartCycle(c)
    \/ \E c \in Cycles : EnterSession(c)
    \/ \E c \in Cycles : Fetch(c)
    \/ \E c \in Cycles : Commit(c)
    \/ \E c \in Cycles : CommitTx(c)
    \/ \E c \in Cycles : CloseSession(c)
    \/ \E c \in Cycles : Dispose(c)
    \/ \E c \in Cycles : EndTask(c)

Spec == Init /\ [][Next]_vars

\* the ingestion side when a cycle may start while another is running
NextOverlap ==
    \/ \E c \in Cycles : StartOverlapping(c)
    \/ \E c \in Cycles : EnterSession(c)
    \/ \E c \in Cycles : Fetch(c)
    \/ \E c \in Cycles : Commit(c)
    \/ \E c \in Cycles : CommitTx(c)
    \/ \E c \in Cycles : CloseSession(c)
    \/ \E c \in Cycles : Dispose(c)
    \/ \E c \in Cycles : EndTask(c)

SpecOverlap == Init /\ [][NextOverlap]_vars

\* the query side: a seeded store and the three routes
NextApi ==
    \/ AddPrice
    \/ GetByRange
    \/ GetAllPrices
    \/ GetLatestPrice
    \/ GetPricesByDate
    \/ Reply

SpecApi == Init /\ [][NextApi]_vars

\* ================================================================ claims
\* the loop over the tickers of cycle st is over
LoopDone(st) ==
    st.pc \in {"close", "dispose", "returned", "raised"} /\ st.fetched # <<>>

\* C1: in one cycle a failure of any kind (network, parse or persistence)
\* while processing one ticker does not keep the other from being fetched
\* and stored: every cycle that entered the loop has requested both tickers,
\* and when btc_usd failed while eth_usd was fetched and the database accepted
\* its write, eth_usd is saved, has exactly one more row than when the cycle
\* started, and the rows of btc_usd are those of the start.
C1_FailureIsolated ==
    \A c \in Cycles :
        LoopDone(cyc[c]) =>
           /\ cyc[c].fetched = <<"btc_usd", "eth_usd">>
           /\ Len(cyc[c].log) = 2
           /\ ((/\ cyc[c].log[1] # "saved"
               /\ cyc[c].log[2] \notin {"fetch_error", "parse_error"}
               /\ cyc[c].db # <<>>
               /\ cyc[c].db[Len(cyc[c].db)] = "ok")
              =>
                 /\ cyc[c].log[2] = "saved"
                 /\ RowsIn(store, "btc_usd") = RowsIn(cyc[c].base, "btc_usd")
                 /\ Len(RowsIn(store, "eth_usd"))
                       = Len(RowsIn(cyc[c].base, "eth_usd")) + 1
                 /\ SubSeq(RowsIn(store, "eth_usd"), 1,
                           Len(RowsIn(cyc[c].base, "eth_usd")))
                       = RowsIn(cyc[c].base, "eth_usd"))

\* the part of C1 about the Fetcher: the same when btc_usd failed in the
\* request or in the conversion of its response
C1_FetchFailureIsolated ==
    \A c \in Cycles :
        LoopDone(cyc[c]) =>
           /\ cyc[c].fetched = <<"btc_usd", "eth_usd">>
           /\ Len(cyc[c].log) = 2
           /\ ((/\ cyc[c].log[1] \in {"fetch_error", "parse_error"}
               /\ cyc[c].log[2] \notin {"fetch_error", "parse_error"}
               /\ cyc[c].db # <<>>
               /\ cyc[c].db[Len(cyc[c].db)] = "ok")
              =>
                 /\ cyc[c].log[2] = "saved"
                 /\ RowsIn(store, "btc_usd") = RowsIn(cyc[c].base, "btc_usd")
                 /\ Len(RowsIn(store, "eth_usd"))
                       = Len(RowsIn(cyc[c].base, "eth_usd")) + 1
                 /\ SubSeq(RowsIn(store, "eth_usd"), 1,
                           Len(RowsIn(cyc[c].base, "eth_usd")))
                       = RowsIn(cyc[c].base, "eth_usd"))

\* C2 as stated: the cycle never raises, also when acquiring or releasing
\* its database resource fails.
C2_NeverRaises == \A c \in Cycles : cyc[c].pc # "raised"

\* C2 amended: whatever the outcomes of the two tickers, the cycle raises only
\* if a call into DatabaseHelper or the session (constructor, opening or
\* closing the session, dispose) raised.
C2_RaisesOnlyOnResourceFailure ==
    \A c \in Cycles :
        /\ cyc[c].pc = "raised" => cyc[c].dbfail
        /\ cyc[c].pc = "returned" => ~cyc[c].dbfail
        /\ cyc[c].exc => cyc[c].dbfail

\* C2 witness: a cycle returned normally although both tickers failed
C2_Witness ==
    \E c \in Cycles :
        /\ cyc[c].pc = "returned"
        /\ cyc[c].log = <<"fetch_error", "write_error">>

\* ---------------------------------------------------------- the query side
\* the rows of the table as a set
Table == Range(store)

\* the rows of ticker T between the optional bounds, both inclusive
Between(T, lo, hi) ==
    { r \in Table : /\ r.ticker = T
                    /\ (lo # None => lo.some <= r.timestamp)
                    /\ (hi # None => r.timestamp <= hi.some) }

\* a sequence that holds each element of set S once
Enumerates(items, S) == Range(items) = S /\ Len(items) = Cardinality(S)

\* C3: get_by_range(T, start, end) returns exactly the rows of T with
\* start <= timestamp <= end (each bound only when given), each once, in
\* ascending order of timestamp; without bounds all rows of T.
C3_RangeExactInclusiveAscending ==
    resp.op \in {"get_by_range", "filter"} /\ resp.delegated =>
        /\ Enumerates(resp.items, Between(resp.ticker, resp.start_ts, resp.end_ts))
        /\ IsAscending(resp.items)
        /\ (resp.start_ts = None /\ resp.end_ts = None =>
               Enumerates(resp.items, {r \in Table : r.ticker = resp.ticker}))

\* C3 witness: get_by_range(T, T1, T2) returned the rows at T1 < T2 in that
\* order, the bounds being their timestamps and the row at T2 having been
\* inserted first
C3_Witness ==
    /\ resp.op = "get_by_range"
    /\ resp.start_ts # None /\ resp.end_ts # None
    /\ Len(resp.items) = 2
    /\ resp.items[1].timestamp = resp.start_ts.some
    /\ resp.items[2].timestamp = resp.end_ts.some
    /\ resp.items[1].timestamp < resp.items[2].timestamp
    /\ resp.items[2].id < resp.items[1].id

\* C4: get_all_by_ticker(T), as served by the list-all route, returns the rows
\* of T in ascending order of timestamp whatever the insertion order.
C4_ListByTickerAscending ==
    resp.op = "all" /\ resp.status = 200 => IsAscending(resp.items)

\* C5: when T has rows, get_latest(T), as served by the latest route, returns
\* one row of T whose timestamp is the maximum among the rows of T.
C5_LatestHasMaxTimestamp ==
    resp.op = "latest" /\ resp.delegated
       /\ (\E r \in Table : r.ticker = resp.ticker) =>
          /\ Len(resp.items) = 1
          /\ resp.items[1] \in Table
          /\ resp.items[1].ticker = resp.ticker
          /\ \A r \in Table :
                r.ticker = resp.ticker => r.timestamp <= resp.items[1].timestamp

\* C5 witness: the row with the maximum timestamp was inserted before a row
\* with a smaller one, and latest returned it
C5_Witness ==
    /\ resp.op = "latest" /\ resp.status = 200
    /\ \E i \in 1..Len(store) : \E j \in 1..Len(store) :
          /\ i < j
          /\ store[i] = resp.items[1]
          /\ store[j].ticker = resp.ticker
          /\ store[j].timestamp < store[i].timestamp

\* C6: for a whitelisted ticker without rows get_latest returns None and the
\* latest route answers 404; it answers 200 with a row exactly when the ticker
\* has rows.
C6_LatestAbsentIs404 ==
    /\ \A T \in {"btc_usd", "eth_usd"} :
          (\A r \in Table : r.ticker # T) => get_latest(T) = {None}
    /\ resp.op = "latest" /\ resp.ticker \in {"btc_usd", "eth_usd"} =>
          /\ resp.status \in {200, 404}
          /\ resp.status = 404 <=> (\A r \in Table : r.ticker # resp.ticker)
          /\ resp.status = 200 =>
                Len(resp.items) = 1 /\ resp.items[1].ticker = resp.ticker

\* C6 witness: 404 for a ticker without rows while the other ticker has rows
C6_Witness ==
    /\ resp.op = "latest" /\ resp.status = 404
    /\ Table # {}

\* C7: each of the three routes answers 400 to every ticker that is not
\* exactly btc_usd or eth_usd, whatever the table and the other parameters,
\* and does not reject these two for their ticker.
C7_TickerWhitelist ==
    resp.op \in {"all", "latest", "filter"} =>
        /\ resp.ticker \notin {"btc_usd", "eth_usd"} =>
              resp.status = 400 /\ ~resp.delegated
        /\ resp.ticker \in {"btc_usd", "eth_usd"} =>
              resp.detail # "Invalid ticker"

\* C7 witness: the filter route rejected BTC_USD although both dates are
\* valid and the table has rows
C7_Witness ==
    /\ resp.op = "filter" /\ resp.ticker = "BTC_USD" /\ resp.status = 400
    /\ resp.start_date = Some(D_1970_01_01)
    /\ resp.end_date = Some(D_1970_01_02)
    /\ Table # {}

\* a date string of the form YYYY-MM-DD: four digits, two digits, two digits
IsYYYYMMDD(s) ==
    /\ Len(s) = 10
    /\ \A i \in {1, 2, 3, 4, 6, 7, 9, 10} : s[i] \in Digits
    /\ s[5] = "-" /\ s[8] = "-"

\* C8: the filter route answers 400, without querying the store, whenever
\* start_date or end_date is supplied and is not of the form YYYY-MM-DD (the
\* empty string and forms without zero padding included).
C8_BadDateRejected ==
    resp.op = "filter"
       /\ (\/ resp.start_date # None /\ ~IsYYYYMMDD(resp.start_date.some)
           \/ resp.end_date # None /\ ~IsYYYYMMDD(resp.end_date.some)) =>
          resp.status = 400 /\ ~resp.delegated

\* the first tick of the UTC day of a date string
UtcDayStart(s) == DaysFromCivil(strptime(s).some) * TicksPerDay

\* C9: for a valid date D the filter route turns start_date=D into the first
\* and end_date=D into the last instant of D in UTC, whatever the local time
\* zone of the server, so that start_date=D with end_date=D returns the rows
\* of the ticker in that UTC day.
C9_DayBoundsAreUtc ==
    resp.op = "filter" /\ resp.status = 200 =>
        /\ resp.start_date # None /\ IsYYYYMMDD(resp.start_date.some) =>
              resp.start_ts = Some(UtcDayStart(resp.start_date.some))
        /\ resp.end_date # None /\ IsYYYYMMDD(resp.end_date.some) =>
              resp.end_ts
                 = Some(UtcDayStart(resp.end_date.some) + TicksPerDay - 1)
        /\ (/\ resp.start_date # None /\ IsYYYYMMDD(resp.start_date.some)
            /\ resp.end_date = resp.start_date) =>
              Range(resp.items)
                 = { r \in Table :
                       /\ r.ticker = resp.ticker
                       /\ r.timestamp \div TicksPerDay
                             = DaysFromCivil(strptime(resp.start_date.some).some) }

\* C10: for a whitelisted ticker T the list-all route answers 200 with exactly
\* the rows whose ticker is T, each once; without rows of T it answers 200
\* with an empty list.
C10_ListAllExact ==
    resp.op = "all" /\ resp.ticker \in {"btc_usd", "eth_usd"} =>
        /\ resp.status = 200
        /\ Enumerates(resp.items, {r \in Table : r.ticker = resp.ticker})

\* C10 witness: 200 with an empty list for a ticker without rows while the
\* other ticker has rows
C10_Witness ==
    /\ resp.op = "all" /\ resp.status = 200 /\ resp.items = <<>>
    /\ Table # {}

\* C11: for every table and every ticker T, get_by_range(T) without bounds
\* returns the same sequence as get_all_by_ticker(T): what the list-all route
\* serves is a result of the filter route called without dates, and what
\* get_by_range or the filter route returns without bounds is a result of
\* get_all_by_ticker.
C11_UnboundedRangeIsListAll ==
    /\ resp.op = "all" /\ resp.status = 200 =>
          resp.items \in get_by_range(resp.ticker, None, None)
    /\ (/\ resp.op \in {"get_by_range", "filter"}
        /\ resp.delegated
        /\ resp.start_ts = None /\ resp.end_ts = None) =>
          resp.items \in get_all_by_ticker(resp.ticker)

\* ------------------------------------------------------ the table over time
\* sequence s is the beginning of sequence t
IsPrefix(s, t) == Len(s) <= Len(t) /\ SubSeq(t, 1, Len(s)) = s

\* C12: the table is append-only: whatever the cycles do (overlapping or
\* not, failing or not), every step leaves every committed row in place with
\* its id, ticker, price and timestamp; a step only appends rows.
C12_AppendOnly == [][IsPrefix(store, store')]_vars

\* C12 witness: a cycle saved btc_usd and failed to write eth_usd while the
\* table holds three rows, two of them committed by the other cycle
C12_Witness ==
    /\ Len(store) = 3
    /\ \E c \in Cycles : cyc[c].log = <<"saved", "write_error">>

\* ------------------------------------------------- one ticker of one cycle
\* the rows of ticker T committed since cycle c started
NewRows(c, T) ==
    SubSeq(RowsIn(store, T), Len(RowsIn(cyc[c].base, T)) + 1,
           Len(RowsIn(store, T)))

\* what the database answered, or would have answered, to the write of the
\* k-th ticker of cycle c, whose request had succeeded
DbAnswer(c, k) ==
    cyc[c].db[Cardinality({j \in 1..k : cyc[c].got[j].kind = "ok"})]

\* the row of the k-th response of cycle c, without its id
RowOfResponse(c, k) ==
    [ticker |-> TICKERS[k], price |-> cyc[c].got[k].price,
     timestamp |-> cyc[c].got[k].usIn]

WithoutId(r) == [ticker |-> r.ticker, price |-> r.price, timestamp |-> r.timestamp]

\* C13: when the request for a ticker succeeded (and the database accepts the
\* write), collect_and_save_prices has called get_index_data once with that
\* ticker and has added exactly one row, with that ticker, the index_price
\* of the response as price and its usIn as timestamp.
C13_OneRowPerSuccessfulFetch ==
    \A c \in Cycles : \A k \in 1..Len(cyc[c].log) :
        (cyc[c].got[k].kind = "ok" /\ DbAnswer(c, k) = "ok") =>
            /\ Cardinality({j \in 1..Len(cyc[c].fetched) :
                               cyc[c].fetched[j] = TICKERS[k]}) = 1
            /\ Len(NewRows(c, TICKERS[k])) = 1
            /\ WithoutId(NewRows(c, TICKERS[k])[1]) = RowOfResponse(c, k)

\* the same for a ticker whose commit was reached on a session that no
\* earlier failure had left waiting for a rollback
C13_OneRowOnUsableSession ==
    \A c \in Cycles : \A k \in 1..Len(cyc[c].log) :
        (cyc[c].got[k].kind = "ok" /\ cyc[c].log[k] = "saved") =>
            /\ Cardinality({j \in 1..Len(cyc[c].fetched) :
                               cyc[c].fetched[j] = TICKERS[k]}) = 1
            /\ Len(NewRows(c, TICKERS[k])) = 1
            /\ WithoutId(NewRows(c, TICKERS[k])[1]) = RowOfResponse(c, k)

\* C14: a persistence failure of one ticker is isolated like a fetch failure:
\* when in one cycle the commit for btc_usd raised, the request for eth_usd
\* then succeeded and the database accepted (or would have accepted) its
\* write, the row of eth_usd is committed in that cycle, and no row of btc_usd
\* is committed with it.
C14_PersistenceFailureIsolated ==
    \A c \in Cycles :
        (/\ Len(cyc[c].log) = 2
         /\ cyc[c].log[1] = "write_error"
         /\ cyc[c].got[2].kind = "ok"
         /\ DbAnswer(c, 2) = "ok")
        =>
           /\ cyc[c].log[2] = "saved"
           /\ Len(NewRows(c, "eth_usd")) = 1
           /\ WithoutId(NewRows(c, "eth_usd")[1]) = RowOfResponse(c, 2)
           /\ NewRows(c, "btc_usd") = <<>>

\* ---------------------------------------------- the resource of one cycle
\* cycle c constructed its DatabaseHelper (a cycle whose constructor raised
\* ends with that exception before the try block, without a request)
Acquired(c) ==
    /\ cyc[c].pc # "idle"
    /\ ~(cyc[c].pc = "raised" /\ cyc[c].fetched = <<>> /\ ~cyc[c].exc)

\* C15: a cycle that constructed its own DatabaseHelper calls dispose() on it
\* exactly once before it ends, whether all tickers were saved, some failed
\* or the session could not be opened; it does not call dispose() before the
\* session block is left.
C15_DisposedExactlyOnce ==
    \A c \in Cycles :
        /\ cyc[c].disposed \in {0, 1}
        /\ cyc[c].pc \in {"returned", "raised"} /\ Acquired(c) =>
              cyc[c].disposed = 1
        /\ cyc[c].pc \in {"enter", "fetch", "commit", "committing", "close",
                          "dispose"} => cyc[c].disposed = 0
        /\ cyc[c].pc = "raised" /\ cyc[c].disposed = 0 =>
              cyc[c].dbfail /\ cyc[c].log = <<>>

\* C15 witness: the session could not be opened, the cycle ended with the
\* exception and had disposed of its DatabaseHelper
C15_Witness ==
    \E c \in Cycles :
        /\ cyc[c].pc = "raised"
        /\ cyc[c].fetched = <<>>
        /\ cyc[c].exc
        /\ cyc[c].disposed = 1

\* ------------------------------------------------------------------ the ids
\* C16 as stated: the ids of the table are pairwise distinct and a row
\* committed later has a strictly larger id than every row committed earlier.
C16_IdsIncreaseInCommitOrder ==
    \A i \in 1..Len(store) : \A j \in 1..Len(store) :
        i < j => store[i].id < store[j].id

\* the ids of the committed rows and of the rows inserted and not yet
\* committed
IdsInUse(st, cy) ==
    [i \in 1..Len(st) |-> st[i].id]
    \o [i \in 1..Len(cy[1].inserted) |-> cy[1].inserted[i].id]
    \o [i \in 1..Len(cy[2].inserted) |-> cy[2].inserted[i].id]

\* C16 amended: the ids of the rows, committed or inserted and not yet
\* committed, are pairwise distinct; they are handed out in increasing order
\* (every id in use is below the next value of the sequence, so a row
\* inserted later takes a larger id than every row inserted before); and no
\* step changes the id of a committed row.
C16_IdsDistinctIncreasingByInsert ==
    [][/\ \A i \in 1..Len(IdsInUse(store', cyc')) :
            \A j \in 1..Len(IdsInUse(store', cyc')) :
               i # j => IdsInUse(store', cyc')[i] # IdsInUse(store', cyc')[j]
       /\ \A i \in 1..Len(IdsInUse(store', cyc')) :
            IdsInUse(store', cyc')[i] \in 1..(nextId' - 1)
       /\ Len(store') >= Len(store)
       /\ \A i \in 1..Len(store) : store'[i].id = store[i].id]_vars

\* C16 witness: of two overlapping cycles the one that inserted its row
\* second committed first: the table holds the larger id before the smaller
C16_Witness ==
    \E i \in 1..Len(store) : \E j \in 1..Len(store) :
        i < j /\ store[i].id > store[j].id

\* ------------------------------------------------------------- no retries
\* how often get_index_data was called with ticker T in cycle c
Calls(c, T) ==
    Cardinality({j \in 1..Len(cyc[c].fetched) : cyc[c].fetched[j] = T})

\* the requests of cycle c that succeeded
OkFetches(c) ==
    Cardinality({j \in 1..Len(cyc[c].got) : cyc[c].got[j].kind = "ok"})

\* C17: there are no retries: in one cycle get_index_data is called at most
\* once per ticker at any time and exactly once per ticker when the loop is
\* over; add_price commits at most once per ticker (one commit per request
\* that succeeded); and a ticker that failed, at the request, the conversion
\* or the write, has no new row when the loop is over, a saved one exactly
\* one.
C17_NoRetries ==
    \A c \in Cycles :
        /\ \A T \in WHITELIST : Calls(c, T) <= 1
        /\ Len(cyc[c].db) <= OkFetches(c)
        /\ cyc[c].pc # "commit" => Len(cyc[c].db) = OkFetches(c)
        /\ LoopDone(cyc[c]) =>
              /\ \A T \in WHITELIST : Calls(c, T) = 1
              /\ Len(cyc[c].log) = Len(TICKERS)
              /\ \A k \in 1..Len(TICKERS) :
                    Len(NewRows(c, TICKERS[k]))
                       = IF cyc[c].log[k] = "saved" THEN 1 ELSE 0

\* C17 witness: the write of btc_usd and the request for eth_usd failed; each
\* ticker was requested once, one write was tried, the table is as before
C17_Witness ==
    \E c \in Cycles :
        /\ LoopDone(cyc[c])
        /\ cyc[c].log = <<"write_error", "fetch_error">>
        /\ cyc[c].fetched = <<"btc_usd", "eth_usd">>
        /\ Len(cyc[c].db) = 1
        /\ store = cyc[c].base
        /\ store # <<>>

\* ------------------------------------------------- no atomicity in a cycle
\* C18: each add is its own committed transaction: when in one cycle btc_usd
\* was fetched and saved and eth_usd then failed (at the request, the
\* conversion or the write), the row of btc_usd saved in that cycle is in the
\* table from then on, also after the cycle has ended, normally or not.
C18_SavedRowSurvivesLaterFailure ==
    \A c \in Cycles :
        (/\ Len(cyc[c].log) = 2
         /\ cyc[c].log[1] = "saved"
         /\ cyc[c].log[2] # "saved")
        =>
           /\ Len(NewRows(c, "btc_usd")) = 1
           /\ WithoutId(NewRows(c, "btc_usd")[1]) = RowOfResponse(c, 1)
           /\ NewRows(c, "eth_usd") = <<>>

\* C18 witness: the cycle has ended after saving btc_usd and failing to write
\* eth_usd
C18_Witness ==
    \E c \in Cycles :
        /\ cyc[c].pc \in {"returned", "raised"}
        /\ cyc[c].log = <<"saved", "write_error">>
        /\ Len(store) = Len(cyc[c].base) + 1

\* ------------------------------------------------------ order in a cycle
\* C19: in a cycle the tickers are processed in the order btc_usd, eth_usd:
\* the requests are made in that order, and when the request for eth_usd is
\* about to start or has been made, the request for btc_usd has been made and
\* its outcome is settled: it failed, or its row was committed or its write
\* failed; no row of btc_usd is waiting in the session or in an open
\* transaction.
C19_BtcSettledBeforeEth ==
    \A c \in Cycles :
        /\ IsPrefix(cyc[c].fetched, TICKERS)
        /\ ((cyc[c].pc = "fetch" /\ cyc[c].i = 2) \/ Len(cyc[c].fetched) = 2) =>
              /\ cyc[c].fetched[1] = "btc_usd"
              /\ Len(cyc[c].log) >= 1
              /\ cyc[c].log[1] = "saved" =>
                    /\ Len(NewRows(c, "btc_usd")) = 1
                    /\ WithoutId(NewRows(c, "btc_usd")[1]) = RowOfResponse(c, 1)
              /\ \A k \in 1..Len(cyc[c].pending) :
                    cyc[c].pending[k].ticker # "btc_usd"
              /\ \A k \in 1..Len(cyc[c].inserted) :
                    cyc[c].inserted[k].ticker # "btc_usd"

\* C19 witness: the request for eth_usd is about to start and the row of
\* btc_usd is committed
C19_Witness ==
    \E c \in Cycles :
        /\ cyc[c].pc = "fetch" /\ cyc[c].i = 2
        /\ cyc[c].fetched = <<"btc_usd">>
        /\ cyc[c].log = <<"saved">>
        /\ Len(store) = Len(cyc[c].base) + 1

\* -------------------------------------------------- the routes only read
\* C20: the query API is read-only: a step in which one of the three routes
\* serves a request, whatever its status, leaves the table and the id
\* sequence as they were.
C20_RoutesReadOnly ==
    [][(resp' # resp /\ resp'.op \in {"all", "latest", "filter"}) =>
          (store' = store /\ nextId' = nextId)]_vars

\* C20 witness: the latest route answered 404 for a ticker while the table
\* holds two rows of the other ticker
C20_Witness ==
    /\ resp.op = "latest" /\ resp.status = 404
    /\ Len(store) = 2
    /\ nextId = 3

\* ------------------------------------------------------- no deduplication
\* C21: there is no deduplication: a step that changes the table appends
\* exactly one row, and every step in which a cycle logs a ticker as saved
\* appends one row with the ticker, price and usIn of the response, also when
\* a row with the same ticker and timestamp is already there; two cycles that
\* fetched the same price and usIn for a ticker leave two rows for it.
C21_NoDeduplication ==
    [][/\ store' # store =>
             Len(store') = Len(store) + 1 /\ IsPrefix(store, store')
       /\ \A c \in Cycles :
             (/\ Len(cyc'[c].log) = Len(cyc[c].log) + 1
              /\ cyc'[c].log[Len(cyc'[c].log)] = "saved")
             =>
                /\ Len(store') = Len(store) + 1
                /\ WithoutId(store'[Len(store')])
                      = [ticker |-> TICKERS[Len(cyc'[c].log)],
                         price |-> cyc'[c].got[Len(cyc'[c].log)].price,
                         timestamp |-> cyc'[c].got[Len(cyc'[c].log)].usIn]]_vars

\* C21 witness: two cycles saved the same price and usIn for btc_usd and the
\* table holds two rows that differ only in their id
C21_Witness ==
    /\ runs = 2
    /\ \E i \in 1..Len(store) : \E j \in 1..Len(store) :
          /\ i < j
          /\ store[i].ticker = "btc_usd"
          /\ WithoutId(store[i]) = WithoutId(store[j])
          /\ store[i].id # store[j].id

\* ------------------------------------------------------ overlapping cycles
\* how many rows of the table are row r but for the id
CountRows(r) ==
    Cardinality({i \in 1..Len(store) : WithoutId(store[i]) = r})

\* how many responses of the cycles are saved as row r
CountSaved(r) ==
    Cardinality({ck \in Cycles \X (1..Len(TICKERS)) :
                    /\ ck[2] <= Len(cyc[ck[1]].log)
                    /\ cyc[ck[1]].log[ck[2]] = "saved"
                    /\ RowOfResponse(ck[1], ck[2]) = r})

\* no write of cycle c before its k-th ticker failed
SessionUsable(c, k) ==
    \A j \in 1..(k - 1) : cyc[c].log[j] # "write_error"

\* C22: overlapping cycles do not interfere.  In every interleaving of two
\* cycles: when all requests and writes of both succeeded, the table has
\* gained exactly two rows per ticker, one from each cycle; whatever the
\* other cycle does (fails, raises or ends), a ticker of a cycle whose
\* request succeeded, whose write the database accepts and whose session no
\* earlier write of the same cycle had broken is saved and its row is in
\* the table; and a cycle that constructed its DatabaseHelper has called
\* dispose() once when it ends.
C22_OverlappingCyclesIndependent ==
    /\ (\A c \in Cycles : cyc[c].log = <<"saved", "saved">>) =>
          /\ \A T \in WHITELIST : Len(RowsIn(store, T)) = 2
          /\ \A c \in Cycles : \A k \in 1..Len(TICKERS) :
                CountRows(RowOfResponse(c, k)) = CountSaved(RowOfResponse(c, k))
    /\ \A c \in Cycles : \A k \in 1..Len(cyc[c].log) :
          /\ (/\ cyc[c].got[k].kind = "ok"
              /\ DbAnswer(c, k) = "ok"
              /\ SessionUsable(c, k))
             => cyc[c].log[k] = "saved"
          /\ cyc[c].log[k] = "saved" =>
                CountRows(RowOfResponse(c, k)) >= 1
    /\ \A c \in Cycles :
          cyc[c].pc \in {"returned", "raised"} /\ Acquired(c) =>
             cyc[c].disposed = 1

\* C22 witness: both cycles saved both tickers; they overlapped, the two rows
\* of btc_usd having been committed before any row of eth_usd
C22_Witness ==
    /\ \A c \in Cycles : cyc[c].log = <<"saved", "saved">>
    /\ Len(store) = 4
    /\ store[1].ticker = "btc_usd" /\ store[2].ticker = "btc_usd"

\* a second case of C22: a cycle saved both tickers and disposed of its
\* DatabaseHelper although the other failed to write btc_usd in between
C22_WitnessOtherFailed ==
    \E c \in Cycles : \E d \in Cycles :
        /\ c # d
        /\ cyc[c].log = <<"saved", "saved">>
        /\ cyc[c].pc = "returned"
        /\ cyc[d].log = <<"write_error", "write_error">>
        /\ Len(store) = 2

====
